---- MODULE Spec2Model ----
(***************************************************************************)
(* Torn Target Tracker website script (src/app.js).                        *)
(*                                                                         *)
(* src/app.js holds two immediately-invoked scripts, version 2.0.0 (lines  *)
(* 7-479) and version 3.0.0 (lines 488-1617).  Both run on the same        *)
(* document, so both register their listeners on the same elements; an     *)
(* event runs the 2.0.0 listener first and the 3.0.0 listener second.      *)
(*                                                                         *)
(* This module models the screenshot gallery (tabs, keyboard, swipe,       *)
(* autoplay timer), the motion preference, the document visibility, the    *)
(* hero parallax, and the scroll and resize handling (navbar, reveal,      *)
(* back-to-top ring, particles).  Lengths are in pixels; a stroke offset   *)
(* and a parallax offset are kept exactly, as fractions or tenths.         *)
(***************************************************************************)
EXTENDS Integers, FiniteSets, Sequences, TLC

(* ---------------------------------------------------------------------- *)
(* Bounds                                                                  *)
(* ---------------------------------------------------------------------- *)

\* number of .screenshot-tab elements in the document (N)
NumTabs == 3

\* setInterval hands out timer ids 1..MaxTimerId
MaxTimerId == 2

\* screen coordinates a touch may report
TouchStartXs == {60}
TouchStartYs == {60}
TouchEndXs == {0, 10, 30, 110, 120}
TouchEndYs == {0, 50, 120}

\* scroll offsets and viewport heights of the parallax specification
ScrollOffsets == {0, 10, 20, 40}
InnerHeights == {30}

\* number of .nav-dropdown elements
NumDropdowns == 2

\* number of .reveal elements; element e lies RevealTop(e) below the page top
NumReveals == 2

\* the viewports, page heights and scroll offsets of the page specification
PageInnerHeights == {400}
PageScrollHeights == {710}
PageWidths == {500, 800, 1000}
PageOffsets == {0, 50, 110, 115, 120, 310, 320}

\* the counter: frame times lie on a grid of ticks of 100 milliseconds, up
\* to MaxElapsedTicks after the start, at most MaxFrames frames
MaxElapsedTicks == 25
MaxFrames == 4

\* animateCounter is called at most MaxStarts times for the element
MaxStarts == 2

\* the wrappers: the clock runs in ticks up to MaxNow, the throttle window is
\* LimitTicks long, the throttled function is called at most MaxCalls times
\* and the frame-aligned one at most MaxCallsPerFrame times between frames
MaxNow == 7
LimitTicks == 2
MaxCalls == 5
MaxCallsPerFrame == 3
CounterTargets == {0, 1, 7, 160, 1000, 1234}

(* ---------------------------------------------------------------------- *)
(* Program constants                                                       *)
(* ---------------------------------------------------------------------- *)

\* CONFIG.swipeThreshold
swipeThreshold == 50

\* state.screenshotAutoplay: null
Null == 0

\* CONFIG.mobileBreakpoint of version 3.0.0 and of version 2.0.0
mobileBreakpoint == 900
mobileBreakpointV2 == 768

\* CONFIG.scrollThreshold, navbarHideThreshold, revealOffset, backToTopThreshold
scrollThreshold == 50
navbarHideThreshold == 5
revealOffset == 100
backToTopThreshold == 300

\* CONFIG.progressRingCircumference (125.6), in tenths
progressRingCircumference == 1256

\* animateCounter: duration (2000 ms), in ticks of 100 ms
DurationTicks == 20

\* CONFIG.particleCount
particleCountMobile == 15
particleCountDesktop == 30

\* the value findIndex returns when no element matches
NotFound == 0 - 1

Tabs == 0 .. (NumTabs - 1)

Keys == {"ArrowRight", "ArrowDown", "ArrowLeft", "ArrowUp", "Home", "End", "Enter"}

NavKeys == {"ArrowRight", "ArrowDown", "ArrowLeft", "ArrowUp", "Home", "End"}

RevealEls == 1 .. NumReveals

\* layout: the distance of reveal element e from the top of the page
RevealTop(e) == 350 * e - 300

VARIABLES
    gallery,            \* DOM of the gallery: tabs, screenshots, caption
    state,              \* the script's state object (3.0.0)
    timers,             \* ids of the interval timers alive in the window
    nextTimerId,        \* the id the next setInterval returns
    touch,              \* touchStartX/Y, touchEndX/Y of initSwipeGestures
    touching,           \* a touch that started on the frame is still down
    reducedMotion,      \* matchMedia('(prefers-reduced-motion: reduce)').matches
    motionChangePending,\* the media query changed, its change event is not yet dispatched
    hidden,             \* document.hidden
    scrollY,            \* window.scrollY
    innerHeight,        \* window.innerHeight
    parallax,           \* initParallax: listener registered, ticking, scheduled under reduced motion
    heroTransform,      \* .hero-visual style.transform: <<>> or <<translateY, tenths of px>>
    innerWidth,         \* window.innerWidth
    scrollHeight,       \* document.documentElement.scrollHeight
    menuOpen,           \* #mobile-menu carries class active
    navbar,             \* #navbar: class scrolled, style.transform
    throttle,           \* inThrottle / ticking flags of the throttled listeners
    reveal,             \* .reveal elements: class visible
    revealObserved,     \* .reveal elements the reveal observer still observes
    backToTop,          \* .back-to-top: class visible, class pulse, ring stroke offset
    particles,          \* number of .particle children of #particles
    deviceSeen,         \* what isMobile() returned to each resize handler at the last resize (history)
    handledY,           \* the offset handleNavbarScroll of 3.0.0 handled last (history)
    counter,            \* a [data-count] element and its animation
    boot,               \* init() of 3.0.0: environment, position, steps run, step that threw
    elems,              \* a page with elements missing: present elements, errors thrown
    wrapped,            \* a throttle and a rafThrottle wrapper: the clock, their closures, the invocations (history)
    dropdown,           \* .nav-dropdown elements: runs of init, class open, class open under one init (history)
    last                \* the event handled by the last step (history)

vars == <<gallery, state, timers, nextTimerId, touch, touching, reducedMotion,
          motionChangePending, hidden, scrollY, innerHeight, parallax,
          heroTransform, innerWidth, scrollHeight, menuOpen, navbar, throttle,
          reveal, revealObserved, backToTop, particles, deviceSeen, handledY,
          counter, boot, elems, dropdown, wrapped, last>>

galleryVars == <<gallery, state, timers, nextTimerId, touch, touching, hidden>>

scrollVars == <<scrollY, innerHeight, parallax, heroTransform>>

pageVars == <<innerWidth, scrollHeight, menuOpen, navbar, throttle, reveal,
              revealObserved, backToTop, particles, deviceSeen, handledY>>

\* the document: everything the gallery, scroll and resize handlers touch
docVars == <<galleryVars, reducedMotion, motionChangePending, scrollVars, pageVars>>

\* the subsystems specified on their own
auxVars == <<counter, boot, elems, dropdown, wrapped>>

(* ---------------------------------------------------------------------- *)
(* Helpers                                                                 *)
(* ---------------------------------------------------------------------- *)

\* JavaScript's % keeps the sign of the dividend
JsMod(a, n) == IF a >= 0 THEN a % n ELSE 0 - ((0 - a) % n)

Abs(a) == IF a >= 0 THEN a ELSE 0 - a

\* the record `last` of a step: the event, the tab it was dispatched on, its
\* key, and what the event's outcome is measured against: the index active
\* before a key, swipe or tick; the autoplay handle before a start, a
\* visibility or motion change; the offset a parallax frame wrote
Event(kind, idx, key, before) == [kind |-> kind, idx |-> idx, key |-> key, before |-> before]

(* ---------------------------------------------------------------------- *)
(* Screenshot gallery                                                      *)
(* ---------------------------------------------------------------------- *)

\* Array.findIndex over the tabs' class lists
getActiveScreenshotIndex(g) ==
    IF \E i \in Tabs : g.tabs[i].active
    THEN CHOOSE i \in Tabs : g.tabs[i].active /\ \A j \in Tabs : j < i => ~g.tabs[j].active
    ELSE NotFound

\* variant: the tabindex attributes are left as they are
switchScreenshotTab_staleTabindex(g, index) ==
    IF NumTabs = 0 THEN g
    ELSE IF index \notin Tabs THEN g
    ELSE [tabs |-> [i \in Tabs |->
                      [active |-> (i = index),
                       ariaSelected |-> (i = index),
                       tabindex |-> g.tabs[i].tabindex]],
          screenshots |-> [j \in Tabs |-> (j = index)],
          caption |-> index]

\* variant: the other tabs keep their class
switchScreenshotTab_keepsOthers(g, index) ==
    IF index \notin Tabs THEN g
    ELSE [g EXCEPT !.tabs[index] = [active |-> TRUE, ariaSelected |-> TRUE, tabindex |-> 0],
                   !.screenshots[index] = TRUE,
                   !.caption = index]

\* variant: the index is taken as one-based
switchScreenshotTab_oneBased(g, index) ==
    IF (index - 1) \notin Tabs THEN g
    ELSE [tabs |-> [i \in Tabs |->
                      [active |-> (i = index - 1),
                       ariaSelected |-> (i = index - 1),
                       tabindex |-> IF i = index - 1 THEN 0 ELSE 0 - 1]],
          screenshots |-> [j \in Tabs |-> (j = index - 1)],
          caption |-> index - 1]

\* variant: class active of the target tab is flipped instead of set
switchScreenshotTab_flipsTarget(g, index) ==
    IF NumTabs = 0 THEN g
    ELSE IF index \notin Tabs THEN g
    ELSE [tabs |-> [i \in Tabs |->
                      [active |-> (i = index /\ ~g.tabs[i].active),
                       ariaSelected |-> (i = index),
                       tabindex |-> IF i = index THEN 0 ELSE 0 - 1]],
          screenshots |-> [j \in Tabs |-> (j = index)],
          caption |-> index]

\* switchScreenshotTab(index); tab i has data-tab i, image j has
\* data-screenshot j, and captions has an entry for every tab
switchScreenshotTab(g, index) ==
    IF NumTabs = 0 THEN g
    ELSE IF index \notin Tabs THEN g
    ELSE [tabs |-> [i \in Tabs |->
                      [active |-> (i = index),
                       ariaSelected |-> (i = index),
                       tabindex |-> IF i = index THEN 0 ELSE 0 - 1]],
          screenshots |-> [j \in Tabs |-> (j = index)],
          caption |-> index]

\* the click listener of version 2.0.0 on tab i
clickHandlerV2(g, i) ==
    [tabs |-> [t \in Tabs |->
                 [active |-> (t = i),
                  ariaSelected |-> (t = i),
                  tabindex |-> IF t = i THEN 0 ELSE 0 - 1]],
     screenshots |-> [j \in Tabs |-> (j = i)],
     caption |-> i]

\* a click event on tab i: listener 2.0.0, then listener 3.0.0
dispatchClick(g, i) == switchScreenshotTab(clickHandlerV2(g, i), i)

\* variant: the arrows do not wrap around
keyTarget_noWrap(index, key) ==
    CASE key \in {"ArrowRight", "ArrowDown"} -> index + 1
      [] key \in {"ArrowLeft", "ArrowUp"} -> index - 1
      [] key = "Home" -> 0
      [] key = "End" -> NumTabs - 1
      [] OTHER -> NotFound

\* the index a key selects from tab `index`; NotFound when the key is not handled
keyTarget(index, key) ==
    CASE key \in {"ArrowRight", "ArrowDown"} -> JsMod(index + 1, NumTabs)
      [] key \in {"ArrowLeft", "ArrowUp"} -> JsMod(index - 1 + NumTabs, NumTabs)
      [] key = "Home" -> 0
      [] key = "End" -> NumTabs - 1
      [] OTHER -> NotFound

\* keydown listener of version 2.0.0 on tab i: focus and click the target tab
keydownHandlerV2(g, i, key) ==
    IF keyTarget(i, key) = NotFound THEN g ELSE dispatchClick(g, keyTarget(i, key))

\* keydown listener of version 3.0.0 on tab `index`
keydownHandlerV3(g, index, key) ==
    IF keyTarget(index, key) = NotFound THEN g
    ELSE switchScreenshotTab(g, keyTarget(index, key))

(* ---------------------------------------------------------------------- *)
(* Autoplay                                                                *)
(* ---------------------------------------------------------------------- *)

\* variant: the next index is not reduced modulo the number of tabs
autoplayNextIndex_noWrap(g) == getActiveScreenshotIndex(g) + 1

\* the interval callback: nextIndex = (currentIndex + 1) % screenshotTabs.length
autoplayNextIndex(g) == JsMod(getActiveScreenshotIndex(g) + 1, NumTabs)

\* the pair (state, timers) after stopScreenshotAutoplay()
stopScreenshotAutoplay(st, tm) ==
    IF st.screenshotAutoplay # Null
    THEN [state |-> [st EXCEPT !.screenshotAutoplay = Null],
          timers |-> tm \ {st.screenshotAutoplay}]
    ELSE [state |-> st, timers |-> tm]

\* variant: a running timer does not make the call return early
startCreatesTimer_ignoresRunning(st, reduced) == ~reduced

\* variant: the motion preference does not make the call return early
startCreatesTimer_ignoresMotion(st, reduced) == ~(st.screenshotAutoplay # Null)

\* startScreenshotAutoplay() creates a timer unless it returns early
startCreatesTimer(st, reduced) == ~(st.screenshotAutoplay # Null \/ reduced)

\* variant: the autoplay is started when the document becomes visible
visibilityChangeHandler_resumes(st, tm, isHidden) ==
    IF isHidden
    THEN stopScreenshotAutoplay(st, tm)
    ELSE [state |-> [st EXCEPT !.screenshotAutoplay = 1], timers |-> tm \cup {1}]

\* variant: the listener does not stop the autoplay
visibilityChangeHandler_noStop(st, tm, isHidden) == [state |-> st, timers |-> tm]

\* the visibilitychange listener, given document.hidden
visibilityChangeHandler(st, tm, isHidden) ==
    IF isHidden THEN stopScreenshotAutoplay(st, tm) ELSE [state |-> st, timers |-> tm]

\* the change listener of the reduced-motion media query (3.0.0), given
\* prefersReducedMotion(); generateParticles touches no state modelled here
motionChangeHandler(st, tm, reduced) ==
    IF reduced THEN stopScreenshotAutoplay(st, tm) ELSE [state |-> st, timers |-> tm]

\* variant: the swipe direction is read the other way round
handleSwipe_reversed(g, t) ==
    LET diffX == t.touchStartX - t.touchEndX
        diffY == t.touchStartY - t.touchEndY
        currentIndex == getActiveScreenshotIndex(g)
    IN  IF Abs(diffX) < swipeThreshold \/ Abs(diffY) > Abs(diffX)
        THEN g
        ELSE IF diffX < 0
             THEN switchScreenshotTab(g, JsMod(currentIndex + 1, NumTabs))
             ELSE switchScreenshotTab(g, JsMod(currentIndex - 1 + NumTabs, NumTabs))

\* variant: the vertical displacement is not compared
handleSwipe_ignoresVertical(g, t) ==
    LET diffX == t.touchStartX - t.touchEndX
        currentIndex == getActiveScreenshotIndex(g)
    IN  IF Abs(diffX) < swipeThreshold
        THEN g
        ELSE IF diffX > 0
             THEN switchScreenshotTab(g, JsMod(currentIndex + 1, NumTabs))
             ELSE switchScreenshotTab(g, JsMod(currentIndex - 1 + NumTabs, NumTabs))

\* handleSwipe: the gallery after a touchend with the touch coordinates t
handleSwipe(g, t) ==
    LET diffX == t.touchStartX - t.touchEndX
        diffY == t.touchStartY - t.touchEndY
        currentIndex == getActiveScreenshotIndex(g)
    IN  IF Abs(diffX) < swipeThreshold \/ Abs(diffY) > Abs(diffX)
        THEN g
        ELSE IF diffX > 0
             THEN switchScreenshotTab(g, JsMod(currentIndex + 1, NumTabs))
             ELSE switchScreenshotTab(g, JsMod(currentIndex - 1 + NumTabs, NumTabs))

(* ---------------------------------------------------------------------- *)
(* Scroll and resize handling                                              *)
(* ---------------------------------------------------------------------- *)

\* isMobile of version 2.0.0 and of version 3.0.0, at window width w
isMobileV2(w) == w < mobileBreakpointV2

isMobile(w) == w < mobileBreakpoint

\* clamp(value, min, max) == Math.min(Math.max(value, min), max)
clamp(value, min, max) ==
    LET lower == IF value > min THEN value ELSE min
    IN  IF lower < max THEN lower ELSE max

\* getScrollPercent at offset y, as the fraction num / den
getScrollPercent(y, docScrollHeight, h) ==
    LET docHeight == docScrollHeight - h
    IN  IF docHeight > 0
        THEN [num |-> clamp(y, 0, docHeight), den |-> docHeight]
        ELSE [num |-> 0, den |-> 1]

\* variant: the stroke offset grows with the scrolled fraction
updateScrollProgress_growing(y, docScrollHeight, h) ==
    LET scrollPercent == getScrollPercent(y, docScrollHeight, h)
    IN  [num |-> progressRingCircumference * scrollPercent.num,
         den |-> scrollPercent.den]

\* updateScrollProgress: strokeDashoffset = circumference * (1 - scrollPercent),
\* in tenths, as the fraction num / den
updateScrollProgress(y, docScrollHeight, h) ==
    LET scrollPercent == getScrollPercent(y, docScrollHeight, h)
    IN  [num |-> progressRingCircumference * (scrollPercent.den - scrollPercent.num),
         den |-> scrollPercent.den]

\* handleNavbarScroll of version 2.0.0: only class scrolled
handleNavbarScrollV2(nb, y) == [nb EXCEPT !.scrolled = (y > scrollThreshold)]

\* variant: state.lastScrollY is not updated
handleNavbarScroll_staleLast(st, nb, y, w) ==
    LET scrollDiff == y - st.lastScrollY
        nb1 == [nb EXCEPT !.scrolled = (y > scrollThreshold)]
    IN  IF ~isMobile(w) /\ y > scrollThreshold * 2
        THEN IF scrollDiff > navbarHideThreshold /\ ~st.isNavbarHidden
             THEN [state |-> [st EXCEPT !.isNavbarHidden = TRUE],
                   navbar |-> [nb1 EXCEPT !.transform = "translateY(-100%)"]]
             ELSE IF scrollDiff < 0 - navbarHideThreshold /\ st.isNavbarHidden
                  THEN [state |-> [st EXCEPT !.isNavbarHidden = FALSE],
                        navbar |-> [nb1 EXCEPT !.transform = "translateY(0)"]]
                  ELSE [state |-> st, navbar |-> nb1]
        ELSE [state |-> [st EXCEPT !.isNavbarHidden = FALSE],
              navbar |-> [nb1 EXCEPT !.transform = "translateY(0)"]]

\* variant: any non-zero delta toggles
handleNavbarScroll_noHysteresis(st, nb, y, w) ==
    LET scrollDiff == y - st.lastScrollY
        nb1 == [nb EXCEPT !.scrolled = (y > scrollThreshold)]
    IN  IF ~isMobile(w) /\ y > scrollThreshold * 2
        THEN IF scrollDiff > 0 /\ ~st.isNavbarHidden
             THEN [state |-> [st EXCEPT !.isNavbarHidden = TRUE, !.lastScrollY = y],
                   navbar |-> [nb1 EXCEPT !.transform = "translateY(-100%)"]]
             ELSE IF scrollDiff < 0 /\ st.isNavbarHidden
                  THEN [state |-> [st EXCEPT !.isNavbarHidden = FALSE, !.lastScrollY = y],
                        navbar |-> [nb1 EXCEPT !.transform = "translateY(0)"]]
                  ELSE [state |-> [st EXCEPT !.lastScrollY = y], navbar |-> nb1]
        ELSE [state |-> [st EXCEPT !.isNavbarHidden = FALSE, !.lastScrollY = y],
              navbar |-> [nb1 EXCEPT !.transform = "translateY(0)"]]

\* handleNavbarScroll of version 3.0.0 at offset y and window width w
handleNavbarScroll(st, nb, y, w) ==
    LET scrollDiff == y - st.lastScrollY
        nb1 == [nb EXCEPT !.scrolled = (y > scrollThreshold)]
    IN  IF ~isMobile(w) /\ y > scrollThreshold * 2
        THEN IF scrollDiff > navbarHideThreshold /\ ~st.isNavbarHidden
             THEN [state |-> [st EXCEPT !.isNavbarHidden = TRUE, !.lastScrollY = y],
                   navbar |-> [nb1 EXCEPT !.transform = "translateY(-100%)"]]
             ELSE IF scrollDiff < 0 - navbarHideThreshold /\ st.isNavbarHidden
                  THEN [state |-> [st EXCEPT !.isNavbarHidden = FALSE, !.lastScrollY = y],
                        navbar |-> [nb1 EXCEPT !.transform = "translateY(0)"]]
                  ELSE [state |-> [st EXCEPT !.lastScrollY = y], navbar |-> nb1]
        ELSE [state |-> [st EXCEPT !.isNavbarHidden = FALSE, !.lastScrollY = y],
              navbar |-> [nb1 EXCEPT !.transform = "translateY(0)"]]

\* variant: the preference is not consulted
handleScrollReveal_ignoresMotion(rv, y, h, reduced) ==
    [e \in RevealEls |-> rv[e] \/ (RevealTop(e) - y < h - revealOffset)]

\* variant: only the reduced-motion branch does anything
handleScrollReveal_onlyReduced(rv, y, h, reduced) ==
    IF reduced
    THEN [e \in RevealEls |-> TRUE]
    ELSE rv

\* variant: the reveal classes are recomputed from the current position
handleScrollReveal_recomputes(rv, y, h, reduced) ==
    IF reduced
    THEN [e \in RevealEls |-> TRUE]
    ELSE [e \in RevealEls |-> (RevealTop(e) - y < h - revealOffset)]

\* handleScrollReveal of version 2.0.0 (getBoundingClientRect().top is
\* RevealTop(e) - y)
handleScrollReveal(rv, y, h, reduced) ==
    IF reduced
    THEN [e \in RevealEls |-> TRUE]
    ELSE [e \in RevealEls |-> rv[e] \/ (RevealTop(e) - y < h - revealOffset)]

\* handleScrollRevealFallback of version 3.0.0
handleScrollRevealFallback(rv, y, h) ==
    [e \in RevealEls |-> rv[e] \/ (RevealTop(e) - y < h - revealOffset)]

\* initScrollReveal of version 3.0.0, IntersectionObserver available or not:
\* the classes and the observed elements
initScrollReveal(rv, y, h, reduced, hasIO) ==
    IF reduced
    THEN [reveal |-> [e \in RevealEls |-> TRUE], observed |-> {}]
    ELSE IF hasIO
         THEN [reveal |-> rv, observed |-> RevealEls]
         ELSE [reveal |-> handleScrollRevealFallback(rv, y, h), observed |-> {}]

\* variant: class pulse is added whenever the button becomes visible
handleBackToTop_alwaysPulses(st, btn, y, docScrollHeight, h) ==
    LET shouldShow == y > backToTopThreshold
        ring == updateScrollProgress(y, docScrollHeight, h)
    IN  IF shouldShow /\ ~btn.visible
        THEN [state |-> [st EXCEPT !.hasShownBackToTop = TRUE],
              btn |-> [visible |-> TRUE, pulse |-> TRUE,
                       pulseTimers |-> btn.pulseTimers + 1, ring |-> <<ring>>]]
        ELSE IF ~shouldShow
             THEN [state |-> st, btn |-> [btn EXCEPT !.visible = FALSE, !.ring = <<ring>>]]
             ELSE [state |-> st, btn |-> [btn EXCEPT !.ring = <<ring>>]]

\* handleBackToTop at offset y: state and the button
handleBackToTop(st, btn, y, docScrollHeight, h) ==
    LET shouldShow == y > backToTopThreshold
        ring == updateScrollProgress(y, docScrollHeight, h)
    IN  IF shouldShow /\ ~btn.visible
        THEN IF ~st.hasShownBackToTop
             THEN [state |-> [st EXCEPT !.hasShownBackToTop = TRUE],
                   btn |-> [visible |-> TRUE, pulse |-> TRUE,
                            pulseTimers |-> btn.pulseTimers + 1, ring |-> <<ring>>]]
             ELSE [state |-> st,
                   btn |-> [btn EXCEPT !.visible = TRUE, !.ring = <<ring>>]]
        ELSE IF ~shouldShow
             THEN [state |-> st, btn |-> [btn EXCEPT !.visible = FALSE, !.ring = <<ring>>]]
             ELSE [state |-> st, btn |-> [btn EXCEPT !.ring = <<ring>>]]

\* variant: the container is not cleared first
generateParticles_appends(count, w, reduced) ==
    IF reduced THEN count
    ELSE count + (IF isMobile(w) THEN particleCountMobile ELSE particleCountDesktop)

\* generateParticles of version 2.0.0 and of version 3.0.0: the number of
\* particles in the container afterwards
generateParticlesV2(count, w, reduced) ==
    IF reduced THEN count
    ELSE IF isMobileV2(w) THEN particleCountMobile ELSE particleCountDesktop

generateParticles(count, w, reduced) ==
    IF reduced THEN count
    ELSE IF isMobile(w) THEN particleCountMobile ELSE particleCountDesktop

\* the body of handleResize of version 2.0.0 and of version 3.0.0: the menu
\* and the particles afterwards, and what isMobile() returned
handleResizeV2(open, count, w, reduced) ==
    [menuOpen |-> IF ~isMobileV2(w) /\ open THEN FALSE ELSE open,
     particles |-> generateParticlesV2(count, w, reduced),
     seen |-> IF isMobileV2(w) THEN "mobile" ELSE "desktop"]

handleResize(open, count, w, reduced) ==
    [menuOpen |-> IF ~isMobile(w) /\ open THEN FALSE ELSE open,
     particles |-> generateParticles(count, w, reduced),
     seen |-> IF isMobile(w) THEN "mobile" ELSE "desktop"]

\* toggleMobileMenu (either version): open a closed menu, close an open one
toggleMobileMenu(open) == ~open

(* ---------------------------------------------------------------------- *)
(* Animated counter                                                        *)
(* ---------------------------------------------------------------------- *)

\* Number.prototype.toLocaleString of a non-negative integer (en-US): the
\* digit groups of three, most significant first
RECURSIVE toLocaleString(_)
toLocaleString(n) ==
    IF n < 1000 THEN <<n>> ELSE Append(toLocaleString(n \div 1000), n % 1000)

\* the number a grouped text denotes
RECURSIVE groupsValue(_)
groupsValue(text) ==
    IF Len(text) = 0 THEN 0
    ELSE groupsValue(SubSeq(text, 1, Len(text) - 1)) * 1000 + text[Len(text)]

\* progress = Math.min(elapsed / duration, 1), in ticks of the duration
counterProgress(elapsed) == IF elapsed < DurationTicks THEN elapsed ELSE DurationTicks

Pow4(x) == x * x * x * x

\* Math.floor((1 - Math.pow(1 - progress, 4)) * target)
easedCount(target, progress) ==
    (target * (Pow4(DurationTicks) - Pow4(DurationTicks - progress))) \div Pow4(DurationTicks)

\* variant: a frame is requested while progress <= 1
updateCount_keepsScheduling(c, elapsed) ==
    LET progress == counterProgress(elapsed)
        current == easedCount(c.target, progress)
    IN  [c EXCEPT !.elapsed = elapsed,
                  !.frames = @ + 1,
                  !.text = IF progress < DurationTicks
                           THEN toLocaleString(current)
                           ELSE toLocaleString(c.target),
                  !.scheduled = (progress <= DurationTicks)]

\* updateCount(currentTime), currentTime - start = elapsed ticks
updateCount(c, elapsed) ==
    LET progress == counterProgress(elapsed)
        current == easedCount(c.target, progress)
    IN  [c EXCEPT !.elapsed = elapsed,
                  !.frames = @ + 1,
                  !.text = IF progress < DurationTicks
                           THEN toLocaleString(current)
                           ELSE toLocaleString(c.target),
                  !.scheduled = (progress < DurationTicks)]

\* a [data-count] element the counter observer observes; the text is that of
\* the markup until the first frame
counterElement(target) ==
    [target |-> target, observed |-> TRUE, scheduled |-> FALSE, elapsed |-> 0,
     frames |-> 0, text |-> <<>>, starts |-> 0]

\* variant: the element stays observed
counterObserverCallback_keepsObserving(c, isIntersecting) ==
    IF isIntersecting
    THEN [c EXCEPT !.scheduled = TRUE, !.elapsed = 0, !.starts = @ + 1]
    ELSE c

\* the counter observer's callback for one entry: animateCounter (start is
\* now, the first frame is requested) and unobserve when the entry is
\* intersecting; starts counts the calls of animateCounter (history)
counterObserverCallback(c, isIntersecting) ==
    IF isIntersecting
    THEN [c EXCEPT !.observed = FALSE, !.scheduled = TRUE, !.elapsed = 0,
                   !.starts = @ + 1]
    ELSE c

(* ---------------------------------------------------------------------- *)
(* init() of 3.0.0, step by step                                           *)
(* ---------------------------------------------------------------------- *)

\* the calls in the try block of init, in order
InitSteps ==
    <<"initAccessibility", "generateParticles", "initImageLoadHandlers",
      "initLazyLoading", "initScreenshotTabs", "initSmoothScroll",
      "initDropdownMenus", "initEventListeners", "initBackToTop",
      "initSwipeGestures", "initKeyboardShortcuts", "initScrollReveal",
      "initActiveSectionTracking", "initParallax", "handleNavbarScroll",
      "handleBackToTop", "initAnimatedCounters", "initContextMenuPrevention",
      "initCopyProtection", "requestAnimationFrame", "logPerformance">>

StepNames == {InitSteps[k] : k \in 1 .. Len(InitSteps)}

\* the steps that use IntersectionObserver
ObserverSteps ==
    {"initLazyLoading", "initScrollReveal", "initActiveSectionTracking",
     "initAnimatedCounters"}

\* what a step that uses IntersectionObserver does in environment env:
\* "observer" (constructs one), "fallback", "disabled" (returns early) or
\* "throws" (new IntersectionObserver with the constructor undefined)
observerStepOutcome(step, env, reduced) ==
    CASE step = "initLazyLoading" ->
            IF ~env.hasLazyImages THEN "disabled"
            ELSE IF env.hasIO THEN "observer" ELSE "fallback"
      [] step = "initScrollReveal" ->
            IF reduced THEN "disabled"
            ELSE IF env.hasIO THEN "observer" ELSE "fallback"
      [] step = "initActiveSectionTracking" ->
            IF ~env.hasSections THEN "disabled"
            ELSE IF env.hasIO THEN "observer" ELSE "throws"
      [] step = "initAnimatedCounters" ->
            IF ~env.hasCounters THEN "disabled"
            ELSE IF env.hasIO THEN "observer" ELSE "throws"
      [] OTHER -> "none"

\* init before its first step, in environment env
bootStart(env) ==
    [env |-> env, pc |-> 1, ran |-> {}, threw |-> "", done |-> FALSE,
     outcome |-> [s \in ObserverSteps |-> "none"]]

\* the environments init can run in
Environments ==
    [hasIO : BOOLEAN, hasLazyImages : BOOLEAN, hasSections : BOOLEAN,
     hasCounters : BOOLEAN]

(* ---------------------------------------------------------------------- *)
(* Missing elements: which handler dereferences which element              *)
(* ---------------------------------------------------------------------- *)

\* the elements the scripts look up by id or selector
ElementNames ==
    {"navbar", "mobileMenu", "mobileMenuBtn", "mobileMenuOverlay",
     "particlesContainer", "backToTopBtn", "progressRing", "heroVisual"}

MenuParts == {"mobileMenu", "mobileMenuOverlay", "mobileMenuBtn"}

\* the scripts: the script of src/unnamed/part_000, 2.0.0 and 3.0.0 of app.js
Scripts == {"v1", "v2", "v3"}

\* per function: the elements its guard requires before it goes on, and the
\* elements it dereferences after the guard
FnAccess(script, fn) ==
    IF script = "v1"
    THEN CASE fn \in {"openMobileMenu", "closeMobileMenu"} ->
                [guards |-> {}, derefs |-> MenuParts]
           [] fn \in {"toggleMobileMenu", "handleEscapeKey", "handleResize"} ->
                [guards |-> {}, derefs |-> {"mobileMenu"}]
           [] fn = "handleNavbarScroll" ->
                [guards |-> {}, derefs |-> {"navbar"}]
           [] fn = "generateParticles" ->
                [guards |-> {"particlesContainer"}, derefs |-> {"particlesContainer"}]
           [] OTHER -> [guards |-> {}, derefs |-> {}]
    ELSE CASE fn \in {"openMobileMenu", "closeMobileMenu"} ->
                [guards |-> MenuParts, derefs |-> MenuParts]
           [] fn \in {"toggleMobileMenu", "isMobileMenuOpen"} ->
                [guards |-> {"mobileMenu"}, derefs |-> {"mobileMenu"}]
           [] fn = "handleNavbarScroll" ->
                [guards |-> {"navbar"}, derefs |-> {"navbar"}]
           [] fn = "generateParticles" ->
                [guards |-> {"particlesContainer"}, derefs |-> {"particlesContainer"}]
           [] fn \in {"initBackToTop", "handleBackToTop"} ->
                [guards |-> {"backToTopBtn"}, derefs |-> {"backToTopBtn"}]
           [] fn = "updateScrollProgress" ->
                [guards |-> {"progressRing"}, derefs |-> {"progressRing"}]
           [] fn = "initParallax" ->
                [guards |-> {"heroVisual"}, derefs |-> {"heroVisual"}]
           [] OTHER -> [guards |-> {}, derefs |-> {}]

\* a function throws a TypeError when it passes its guard and dereferences
\* an element that is null
fnThrows(script, fn, present) ==
    /\ FnAccess(script, fn).guards \subseteq present
    /\ ~(FnAccess(script, fn).derefs \subseteq present)

\* the functions the handler of event ev calls in a script, with the menu
\* active or not and the window w wide
calledFns(script, ev, present, active, w) ==
    LET closing == IF "mobileMenu" \in present /\ active
                   THEN {"closeMobileMenu"} ELSE {}
    IN  CASE ev = "init" ->
                IF script = "v3"
                THEN {"generateParticles", "initBackToTop", "initParallax",
                      "handleNavbarScroll", "handleBackToTop"}
                     \cup (IF "backToTopBtn" \in present
                           THEN {"updateScrollProgress"} ELSE {})
                ELSE {"generateParticles", "handleNavbarScroll"}
          [] ev = "scroll" ->
                IF script = "v3"
                THEN {"handleNavbarScroll", "handleBackToTop"}
                     \cup (IF "backToTopBtn" \in present
                           THEN {"updateScrollProgress"} ELSE {})
                ELSE {"handleNavbarScroll"}
          [] ev = "Escape" ->
                (IF script = "v1" THEN {"handleEscapeKey"} ELSE {"isMobileMenuOpen"})
                \cup closing
          [] ev = "resize" ->
                IF script = "v1"
                THEN IF w > mobileBreakpointV2 THEN {"handleResize"} \cup closing ELSE {}
                ELSE {"isMobileMenuOpen", "generateParticles"}
                     \cup (IF (script = "v2" /\ ~isMobileV2(w)) \/ (script = "v3" /\ ~isMobile(w))
                           THEN closing ELSE {})
          [] ev = "menuclick" ->
                {"toggleMobileMenu"}
                \cup (IF "mobileMenu" \in present
                      THEN IF active THEN {"closeMobileMenu"} ELSE {"openMobileMenu"}
                      ELSE {})
          [] OTHER -> {}

\* class active of #mobile-menu on the page of the script of part_000 after
\* the handler of ev: open and close change the class before they reach a
\* missing overlay or button
menuActiveV1(ev, present, active, w) ==
    LET fns == calledFns("v1", ev, present, active, w)
    IN  IF "mobileMenu" \notin present THEN active
        ELSE IF "openMobileMenu" \in fns THEN TRUE
        ELSE IF "closeMobileMenu" \in fns THEN FALSE
        ELSE active

ElementEvents == {"scroll", "Escape", "resize", "menuclick"}

\* the pages: every subset of the elements present, before init
elementsPage(present) ==
    [present |-> present, inited |-> FALSE, menuActive |-> FALSE, errors |-> {}]

(* ---------------------------------------------------------------------- *)
(* Dropdown menus, with init() of 3.0.0 run once or twice                  *)
(* ---------------------------------------------------------------------- *)

Dropdowns == 1 .. NumDropdowns

DropdownKeys == {"Enter", " ", "ArrowDown", "Escape", "Tab"}

\* how often init() runs on the document
InitRuns == {1, 2}

\* the click listener of the trigger of dropdown d: the open dropdowns after
triggerClickHandler(open, d) == IF d \in open THEN {} ELSE {d}

\* the keydown listener of the trigger of dropdown d
triggerKeydownHandler(open, d, key) ==
    CASE key \in {"Enter", " "} -> IF d \in open THEN open \ {d} ELSE open \cup {d}
      [] key = "ArrowDown" -> open \cup {d}
      [] key = "Escape" -> open \ {d}
      [] OTHER -> open

\* the click listener of the document, for a click outside every dropdown
outsideClickHandler(open) == {}

\* initDropdownMenus registers its listeners as new function objects on
\* every run of init: an event runs as many copies as init ran
dropdownsAfterInit(runs) == [inits |-> runs, open |-> {}, ref |-> {}]

(* ---------------------------------------------------------------------- *)
(* Initial state: the document after both scripts ran init()               *)
(* ---------------------------------------------------------------------- *)

\* the tab that carries class "active" in the page markup
MarkupActiveTab == 0

\* initAccessibility: aria-selected and tabindex single out index 0
initAccessibility ==
    [tabs |-> [i \in Tabs |->
                 [active |-> (i = MarkupActiveTab),
                  ariaSelected |-> (i = 0),
                  tabindex |-> IF i = 0 THEN 0 ELSE 0 - 1]],
     screenshots |-> [j \in Tabs |-> (j = MarkupActiveTab)],
     caption |-> MarkupActiveTab]

initialState ==
    [lastScrollY |-> 0, scrollDirection |-> "up", ticking |-> FALSE,
     isNavbarHidden |-> FALSE, screenshotAutoplay |-> Null,
     hasShownBackToTop |-> FALSE]

\* initParallax registers its scroll listener unless motion is reduced at load
initParallax(reduced) == [registered |-> ~reduced, ticking |-> FALSE, schedReduced |-> FALSE]

\* the document after init() of 2.0.0 and then of 3.0.0 ran at scroll offset
\* 0 with every element of the page present, in a window whose height, width
\* and page height are drawn from the given sets.  Without
\* IntersectionObserver init of 3.0.0 ends in its catch block at
\* initActiveSectionTracking: initParallax and the first handleNavbarScroll
\* and handleBackToTop are not reached.  init leaves the mobile menu as it
\* finds it: menus holds the values of "#mobile-menu carries class active"
\* the document may have then.
LoadedWith(heights, widths, pageHeights, hasIO, menus) ==
    /\ gallery = initAccessibility
    /\ timers = {}
    /\ nextTimerId = 1
    /\ touch = [touchStartX |-> 0, touchStartY |-> 0, touchEndX |-> 0, touchEndY |-> 0]
    /\ touching = FALSE
    /\ reducedMotion \in BOOLEAN
    /\ motionChangePending = FALSE
    /\ hidden = FALSE
    /\ scrollY = 0
    /\ innerHeight \in heights
    /\ innerWidth \in widths
    /\ scrollHeight \in pageHeights
    /\ parallax = initParallax(reducedMotion \/ ~hasIO)
    /\ heroTransform = <<>>
    /\ menuOpen \in menus
    /\ throttle = [scrollV2 |-> FALSE, scrollTicking |-> FALSE,
                   resizeV2 |-> FALSE, resizeV3 |-> FALSE]
    /\ particles = generateParticles(generateParticlesV2(0, innerWidth, reducedMotion),
                                     innerWidth, reducedMotion)
    /\ LET rv == handleScrollReveal([e \in RevealEls |-> FALSE], 0, innerHeight,
                                    reducedMotion)
           rs == initScrollReveal(rv, 0, innerHeight, reducedMotion, hasIO)
       IN  /\ reveal = rs.reveal
           /\ revealObserved = rs.observed
    /\ LET nb2 == handleNavbarScrollV2([scrolled |-> FALSE, transform |-> ""], 0)
           btn == [visible |-> FALSE, pulse |-> FALSE, pulseTimers |-> 0, ring |-> <<>>]
           nb == handleNavbarScroll(initialState, nb2, 0, innerWidth)
           bt == handleBackToTop(nb.state, btn, 0, scrollHeight, innerHeight)
       IN  IF hasIO
           THEN /\ navbar = nb.navbar
                /\ backToTop = bt.btn
                /\ state = bt.state
           ELSE /\ navbar = nb2
                /\ backToTop = btn
                /\ state = initialState
    /\ deviceSeen = [v2 |-> "none", v3 |-> "none"]
    /\ handledY = 0
    /\ last = Event("init", NotFound, "", NotFound)

\* the same, the mobile menu closed
LoadedIn(heights, widths, pageHeights, hasIO) ==
    LoadedWith(heights, widths, pageHeights, hasIO, {FALSE})

\* the same, in a browser that has IntersectionObserver
Loaded(heights, widths, pageHeights) == LoadedIn(heights, widths, pageHeights, TRUE)

(* ---------------------------------------------------------------------- *)
(* The rate-limiting wrappers throttle and rafThrottle                     *)
(* ---------------------------------------------------------------------- *)

\* the arguments a wrapper is called with
WrapperArgs == {"a", "b"}

\* variant: the window is never opened
throttledCall_noWindow(w, arg, now) ==
    [w EXCEPT !.calls = @ + 1,
              !.invoked = @ + 1,
              !.lastArg = arg,
              !.prevAt = w.lastAt,
              !.lastAt = now,
              !.due = now + w.limit]

\* the function throttle(func, limit) returns, called with arg at time now:
\* the closure's inThrottle, when its timeout is due, and a record of the
\* invocations of func (how many, the argument and time of the last one, the
\* time of the one before)
throttledCall(w, arg, now) ==
    IF ~w.inThrottle
    THEN [w EXCEPT !.calls = @ + 1,
                   !.invoked = @ + 1,
                   !.lastArg = arg,
                   !.prevAt = w.lastAt,
                   !.lastAt = now,
                   !.inThrottle = TRUE,
                   !.due = now + w.limit]
    ELSE [w EXCEPT !.calls = @ + 1]

\* the timeout callback of throttle: () => inThrottle = false
throttleTimeout(w) == [w EXCEPT !.inThrottle = FALSE]

\* variant: ticking is never set
rafThrottledCall_neverTicking(r, arg) ==
    [r EXCEPT !.frames = Append(@, arg),
              !.calls = @ + 1,
              !.latestArg = arg]

\* the function rafThrottle(func) returns, called with arg: the closure's
\* ticking, the arguments captured by the frame callbacks requested, the
\* number of calls since the last frame and the argument of the latest
rafThrottledCall(r, arg) ==
    IF ~r.ticking
    THEN [r EXCEPT !.frames = Append(@, arg),
                   !.ticking = TRUE,
                   !.calls = @ + 1,
                   !.latestArg = arg]
    ELSE [r EXCEPT !.calls = @ + 1,
                   !.latestArg = arg]

\* an animation frame: every frame callback requested runs func with the
\* arguments it captured and clears ticking; recorded are the number of
\* runs of func in the frame, the arguments of the last run, and the calls
\* and the latest call's argument the frame found
rafThrottleFrame(r) ==
    [r EXCEPT !.frames = <<>>,
              !.ticking = IF r.frames = <<>> THEN @ ELSE FALSE,
              !.calls = 0,
              !.ran = Len(r.frames),
              !.ranArg = IF r.frames = <<>> THEN "" ELSE r.frames[Len(r.frames)],
              !.ranCalls = r.calls,
              !.ranLatest = r.latestArg]

\* the two wrappers just created, nothing called yet
wrappedIdle ==
    [now |-> 0,
     th |-> [limit |-> LimitTicks, inThrottle |-> FALSE, due |-> NotFound,
             calls |-> 0, invoked |-> 0, lastArg |-> "",
             lastAt |-> NotFound, prevAt |-> NotFound],
     raf |-> [ticking |-> FALSE, frames |-> <<>>, calls |-> 0, latestArg |-> "",
              ran |-> 0, ranArg |-> "", ranCalls |-> 0, ranLatest |-> ""]]

\* no counter on the page
counterIdle == [counterElement(0) EXCEPT !.observed = FALSE]

\* init ran all its steps, everything available
bootDone ==
    [bootStart([hasIO |-> TRUE, hasLazyImages |-> TRUE, hasSections |-> TRUE,
                hasCounters |-> TRUE])
        EXCEPT !.pc = Len(InitSteps) + 1, !.ran = StepNames, !.done = TRUE,
               !.outcome = [s \in ObserverSteps |-> "observer"]]

\* init of 3.0.0 after it ran without IntersectionObserver, every element
\* present: it threw at initActiveSectionTracking
bootNoObserver(reduced) ==
    LET env == [hasIO |-> FALSE, hasLazyImages |-> TRUE, hasSections |-> TRUE,
                hasCounters |-> TRUE]
        at == CHOOSE k \in 1 .. Len(InitSteps) : InitSteps[k] = "initActiveSectionTracking"
    IN  [bootStart(env)
            EXCEPT !.pc = at,
                   !.ran = {InitSteps[k] : k \in 1 .. at - 1},
                   !.threw = "initActiveSectionTracking",
                   !.done = TRUE,
                   !.outcome = [s \in ObserverSteps |->
                                   IF s = "initAnimatedCounters" THEN "none"
                                   ELSE observerStepOutcome(s, env, reduced)]]

\* every element present, init ran
elemsIdle == [elementsPage(ElementNames) EXCEPT !.inited = TRUE]

\* the subsystems specified on their own, at rest
AuxIdle ==
    /\ counter = counterIdle
    /\ boot = bootDone
    /\ elems = elemsIdle
    /\ dropdown = dropdownsAfterInit(1)
    /\ wrapped = wrappedIdle

Init == Loaded(InnerHeights, {1000}, {710}) /\ AuxIdle

(* ---------------------------------------------------------------------- *)
(* Gallery events                                                          *)
(* ---------------------------------------------------------------------- *)

\* a click event on tab i
TabClick(i) ==
    /\ gallery' = dispatchClick(gallery, i)
    /\ last' = Event("click", i, "", getActiveScreenshotIndex(gallery))
    /\ UNCHANGED <<state, timers, nextTimerId, touch, touching, hidden,
                   reducedMotion, motionChangePending>>
    /\ UNCHANGED scrollVars
    /\ UNCHANGED pageVars
    /\ UNCHANGED auxVars

\* a keydown event on tab i
TabKeydown(i, key) ==
    /\ gallery' = keydownHandlerV3(keydownHandlerV2(gallery, i, key), i, key)
    /\ last' = Event("keydown", i, key,
                     IF key \in NavKeys THEN NotFound ELSE getActiveScreenshotIndex(gallery))
    /\ UNCHANGED <<state, timers, nextTimerId, touch, touching, hidden,
                   reducedMotion, motionChangePending>>
    /\ UNCHANGED scrollVars
    /\ UNCHANGED pageVars
    /\ UNCHANGED auxVars

\* touchstart on .screenshot-frame
TouchStart(x, y) ==
    /\ ~touching
    /\ touch' = [touch EXCEPT !.touchStartX = x, !.touchStartY = y]
    /\ touching' = TRUE
    /\ state' = stopScreenshotAutoplay(state, timers).state
    /\ timers' = stopScreenshotAutoplay(state, timers).timers
    /\ last' = Event("touchstart", NotFound, "", NotFound)
    /\ UNCHANGED <<gallery, nextTimerId, hidden, reducedMotion, motionChangePending>>
    /\ UNCHANGED scrollVars
    /\ UNCHANGED pageVars
    /\ UNCHANGED auxVars

\* touchend on .screenshot-frame
TouchEnd(x, y) ==
    /\ touching
    /\ touch' = [touch EXCEPT !.touchEndX = x, !.touchEndY = y]
    /\ touching' = FALSE
    /\ gallery' = handleSwipe(gallery, touch')
    /\ last' = Event("touchend", NotFound, "", getActiveScreenshotIndex(gallery))
    /\ UNCHANGED <<state, timers, nextTimerId, hidden, reducedMotion, motionChangePending>>
    /\ UNCHANGED scrollVars
    /\ UNCHANGED pageVars
    /\ UNCHANGED auxVars

\* mouseenter or focusin on .screenshot-gallery
GalleryEnter(kind) ==
    /\ state' = stopScreenshotAutoplay(state, timers).state
    /\ timers' = stopScreenshotAutoplay(state, timers).timers
    /\ last' = Event(kind, NotFound, "", NotFound)
    /\ UNCHANGED <<gallery, nextTimerId, touch, touching, hidden,
                   reducedMotion, motionChangePending>>
    /\ UNCHANGED scrollVars
    /\ UNCHANGED pageVars
    /\ UNCHANGED auxVars

\* a call of startScreenshotAutoplay()
StartScreenshotAutoplay ==
    /\ nextTimerId <= MaxTimerId
    /\ IF startCreatesTimer(state, reducedMotion)
       THEN /\ state' = [state EXCEPT !.screenshotAutoplay = nextTimerId]
            /\ timers' = timers \cup {nextTimerId}
            /\ nextTimerId' = nextTimerId + 1
       ELSE UNCHANGED <<state, timers, nextTimerId>>
    /\ last' = Event("start", NotFound, "", state.screenshotAutoplay)
    /\ UNCHANGED <<gallery, touch, touching, hidden, reducedMotion, motionChangePending>>
    /\ UNCHANGED scrollVars
    /\ UNCHANGED pageVars
    /\ UNCHANGED auxVars

\* the interval callback of a timer that is alive
AutoplayTick ==
    /\ timers # {}
    /\ gallery' = switchScreenshotTab(gallery, autoplayNextIndex(gallery))
    /\ last' = Event("tick", NotFound, "", getActiveScreenshotIndex(gallery))
    /\ UNCHANGED <<state, timers, nextTimerId, touch, touching, hidden,
                   reducedMotion, motionChangePending>>
    /\ UNCHANGED scrollVars
    /\ UNCHANGED pageVars
    /\ UNCHANGED auxVars

(* ---------------------------------------------------------------------- *)
(* Platform signals                                                        *)
(* ---------------------------------------------------------------------- *)

\* the platform's reduced-motion setting changes
MotionPreferenceFlip ==
    /\ ~motionChangePending
    /\ reducedMotion' = ~reducedMotion
    /\ motionChangePending' = TRUE
    /\ last' = Event("motionflip", NotFound, "", NotFound)
    /\ UNCHANGED galleryVars
    /\ UNCHANGED scrollVars
    /\ UNCHANGED pageVars
    /\ UNCHANGED auxVars

\* the change listeners of the media query (2.0.0: particles, reveal; then
\* 3.0.0: particles, stop autoplay)
MotionChangeHandler ==
    /\ motionChangePending
    /\ motionChangePending' = FALSE
    /\ particles' = generateParticles(
                        generateParticlesV2(particles, innerWidth, reducedMotion),
                        innerWidth, reducedMotion)
    /\ reveal' = handleScrollReveal(reveal, scrollY, innerHeight, reducedMotion)
    /\ state' = motionChangeHandler(state, timers, reducedMotion).state
    /\ timers' = motionChangeHandler(state, timers, reducedMotion).timers
    /\ last' = Event("motionchange", NotFound, "", state.screenshotAutoplay)
    /\ UNCHANGED <<gallery, nextTimerId, touch, touching, hidden, reducedMotion>>
    /\ UNCHANGED scrollVars
    /\ UNCHANGED <<innerWidth, scrollHeight, menuOpen, navbar, throttle,
                   revealObserved, backToTop, deviceSeen>>
    /\ UNCHANGED handledY
    /\ UNCHANGED auxVars

\* visibilitychange on the document
VisibilityChange ==
    /\ hidden' = ~hidden
    /\ state' = visibilityChangeHandler(state, timers, hidden').state
    /\ timers' = visibilityChangeHandler(state, timers, hidden').timers
    /\ last' = Event("visibilitychange", NotFound, "", state.screenshotAutoplay)
    /\ UNCHANGED <<gallery, nextTimerId, touch, touching, reducedMotion, motionChangePending>>
    /\ UNCHANGED scrollVars
    /\ UNCHANGED pageVars
    /\ UNCHANGED auxVars

(* ---------------------------------------------------------------------- *)
(* Hero parallax                                                           *)
(* ---------------------------------------------------------------------- *)

\* parallaxAmount = scrollY * 0.3, in tenths of a pixel
parallaxAmount(y) == y * 3

\* the scroll listener initParallax registered: schedule one frame callback
\* unless one is pending (schedReduced records whether the preference was on,
\* with its change handler run, when the frame was scheduled)
parallaxScrollListener(px, reducedSettled) ==
    IF px.registered /\ ~px.ticking
    THEN [px EXCEPT !.ticking = TRUE, !.schedReduced = reducedSettled]
    ELSE px

\* the window scrolls to offset y and the scroll event is dispatched: the
\* throttled handler of 2.0.0 (navbar class, reveal), the frame-throttled
\* handleScroll of 3.0.0, the parallax listener
Scroll(y) ==
    /\ y # scrollY
    /\ scrollY' = y
    /\ IF throttle.scrollV2
       THEN UNCHANGED <<navbar, reveal>>
       ELSE /\ navbar' = handleNavbarScrollV2(navbar, y)
            /\ reveal' = handleScrollReveal(reveal, y, innerHeight, reducedMotion)
    /\ throttle' = [throttle EXCEPT !.scrollV2 = TRUE, !.scrollTicking = TRUE]
    /\ parallax' = parallaxScrollListener(parallax, reducedMotion /\ ~motionChangePending)
    /\ last' = Event("scroll", NotFound,
                     IF throttle.scrollV2 THEN "throttled" ELSE "handled", NotFound)
    /\ UNCHANGED <<innerHeight, heroTransform, reducedMotion, motionChangePending>>
    /\ UNCHANGED galleryVars
    /\ UNCHANGED <<innerWidth, scrollHeight, menuOpen, revealObserved, backToTop,
                   particles, deviceSeen>>
    /\ UNCHANGED handledY
    /\ UNCHANGED auxVars

\* the animation frame callback scheduled by the parallax scroll listener
ParallaxFrame ==
    /\ parallax.ticking
    /\ parallax' = [parallax EXCEPT !.ticking = FALSE]
    /\ IF scrollY < innerHeight
       THEN /\ heroTransform' = <<parallaxAmount(scrollY)>>
            /\ last' = Event("parallaxframe", NotFound, "", parallaxAmount(scrollY))
       ELSE /\ heroTransform' = heroTransform
            /\ last' = Event("parallaxframe", NotFound, "", NotFound)
    /\ UNCHANGED <<scrollY, innerHeight, reducedMotion, motionChangePending>>
    /\ UNCHANGED galleryVars
    /\ UNCHANGED pageVars
    /\ UNCHANGED auxVars

(* ---------------------------------------------------------------------- *)
(* Scroll frames, throttles, resize, reveal observer, menu button          *)
(* ---------------------------------------------------------------------- *)

\* the animation frame callback rafThrottle scheduled for handleScroll of
\* 3.0.0: handleNavbarScroll, then handleBackToTop
ScrollFrame ==
    /\ throttle.scrollTicking
    /\ throttle' = [throttle EXCEPT !.scrollTicking = FALSE]
    /\ LET nb == handleNavbarScroll(state, navbar, scrollY, innerWidth)
           bt == handleBackToTop(nb.state, backToTop, scrollY, scrollHeight, innerHeight)
       IN  /\ navbar' = nb.navbar
           /\ backToTop' = bt.btn
           /\ state' = bt.state
    /\ last' = Event("scrollframe", NotFound,
                     IF state.isNavbarHidden THEN "hidden" ELSE "shown",
                     handledY)
    /\ handledY' = scrollY
    /\ UNCHANGED <<gallery, timers, nextTimerId, touch, touching, hidden>>
    /\ UNCHANGED <<reducedMotion, motionChangePending>>
    /\ UNCHANGED scrollVars
    /\ UNCHANGED <<innerWidth, scrollHeight, menuOpen, reveal, revealObserved,
                   particles, deviceSeen>>
    /\ UNCHANGED auxVars

\* the timeout that ends the throttle window of a throttled listener
ThrottleTimeout(which) ==
    /\ throttle[which]
    /\ throttle' = [throttle EXCEPT ![which] = FALSE]
    /\ last' = Event("throttletimeout", NotFound, which, NotFound)
    /\ UNCHANGED galleryVars
    /\ UNCHANGED <<reducedMotion, motionChangePending>>
    /\ UNCHANGED scrollVars
    /\ UNCHANGED <<innerWidth, scrollHeight, menuOpen, navbar, reveal, revealObserved,
                   backToTop, particles, deviceSeen>>
    /\ UNCHANGED handledY
    /\ UNCHANGED auxVars

\* the timeout that removes class pulse from the back-to-top button
PulseTimeout ==
    /\ backToTop.pulseTimers > 0
    /\ backToTop' = [backToTop EXCEPT !.pulse = FALSE, !.pulseTimers = @ - 1]
    /\ last' = Event("pulsetimeout", NotFound, "", NotFound)
    /\ UNCHANGED galleryVars
    /\ UNCHANGED <<reducedMotion, motionChangePending>>
    /\ UNCHANGED scrollVars
    /\ UNCHANGED <<innerWidth, scrollHeight, menuOpen, navbar, throttle, reveal,
                   revealObserved, particles, deviceSeen>>
    /\ UNCHANGED handledY
    /\ UNCHANGED auxVars

\* the window is resized to width w and the resize event is dispatched: the
\* throttled handleResize of 2.0.0, then that of 3.0.0
Resize(w) ==
    /\ w # innerWidth
    /\ innerWidth' = w
    /\ LET r2 == IF throttle.resizeV2
                 THEN [menuOpen |-> menuOpen, particles |-> particles, seen |-> "none"]
                 ELSE handleResizeV2(menuOpen, particles, w, reducedMotion)
           r3 == IF throttle.resizeV3
                 THEN [menuOpen |-> r2.menuOpen, particles |-> r2.particles, seen |-> "none"]
                 ELSE handleResize(r2.menuOpen, r2.particles, w, reducedMotion)
       IN  /\ menuOpen' = r3.menuOpen
           /\ particles' = r3.particles
           /\ deviceSeen' = [v2 |-> r2.seen, v3 |-> r3.seen]
    /\ throttle' = [throttle EXCEPT !.resizeV2 = TRUE, !.resizeV3 = TRUE]
    /\ last' = Event("resize", NotFound, "", NotFound)
    /\ UNCHANGED galleryVars
    /\ UNCHANGED <<reducedMotion, motionChangePending>>
    /\ UNCHANGED scrollVars
    /\ UNCHANGED <<scrollHeight, navbar, reveal, revealObserved, backToTop>>
    /\ UNCHANGED handledY
    /\ UNCHANGED auxVars

\* the reveal observer of 3.0.0 reports element e, intersecting or not
RevealObserverEntry(e, isIntersecting) ==
    /\ e \in revealObserved
    /\ IF isIntersecting
       THEN /\ reveal' = [reveal EXCEPT ![e] = TRUE]
            /\ revealObserved' = revealObserved \ {e}
       ELSE UNCHANGED <<reveal, revealObserved>>
    /\ last' = Event("revealentry", e, "", NotFound)
    /\ UNCHANGED galleryVars
    /\ UNCHANGED <<reducedMotion, motionChangePending>>
    /\ UNCHANGED scrollVars
    /\ UNCHANGED <<innerWidth, scrollHeight, menuOpen, navbar, throttle, backToTop,
                   particles, deviceSeen>>
    /\ UNCHANGED handledY
    /\ UNCHANGED auxVars

\* a click on #mobile-menu-btn: toggleMobileMenu of 2.0.0, then of 3.0.0
MenuButtonClick ==
    /\ menuOpen' = toggleMobileMenu(toggleMobileMenu(menuOpen))
    /\ last' = Event("menuclick", NotFound, "", NotFound)
    /\ UNCHANGED galleryVars
    /\ UNCHANGED <<reducedMotion, motionChangePending>>
    /\ UNCHANGED scrollVars
    /\ UNCHANGED <<innerWidth, scrollHeight, navbar, throttle, reveal, revealObserved,
                   backToTop, particles, deviceSeen>>
    /\ UNCHANGED handledY
    /\ UNCHANGED auxVars

(* ---------------------------------------------------------------------- *)
(* Specification of the gallery                                            *)
(* ---------------------------------------------------------------------- *)

Next ==
    \/ \E i \in Tabs : TabClick(i)
    \/ \E i \in Tabs, key \in Keys : TabKeydown(i, key)
    \/ \E x \in TouchStartXs, y \in TouchStartYs : TouchStart(x, y)
    \/ \E x \in TouchEndXs, y \in TouchEndYs : TouchEnd(x, y)
    \/ \E kind \in {"mouseenter", "focusin"} : GalleryEnter(kind)
    \/ StartScreenshotAutoplay
    \/ AutoplayTick
    \/ MotionPreferenceFlip
    \/ MotionChangeHandler
    \/ VisibilityChange

Spec == Init /\ [][Next]_vars

(* ---------------------------------------------------------------------- *)
(* Specification of the gallery under the events the script listens to     *)
(* ---------------------------------------------------------------------- *)

\* every gallery event of Next; startScreenshotAutoplay has no caller in the
\* script, so neither a call of it nor a tick of its timer is among them
NextEvents ==
    \/ \E i \in Tabs : TabClick(i)
    \/ \E i \in Tabs, key \in Keys : TabKeydown(i, key)
    \/ \E x \in TouchStartXs, y \in TouchStartYs : TouchStart(x, y)
    \/ \E x \in TouchEndXs, y \in TouchEndYs : TouchEnd(x, y)
    \/ \E kind \in {"mouseenter", "focusin"} : GalleryEnter(kind)
    \/ MotionPreferenceFlip
    \/ MotionChangeHandler
    \/ VisibilityChange

SpecEvents == Init /\ [][NextEvents]_vars

(* ---------------------------------------------------------------------- *)
(* Specification of the parallax                                           *)
(* ---------------------------------------------------------------------- *)

NextParallax ==
    \/ \E y \in ScrollOffsets : Scroll(y)
    \/ ParallaxFrame
    \/ MotionPreferenceFlip
    \/ MotionChangeHandler

SpecParallax == Init /\ [][NextParallax]_vars

(* ---------------------------------------------------------------------- *)
(* Specification of the scrolled and resized page                          *)
(* ---------------------------------------------------------------------- *)

InitPage == Loaded(PageInnerHeights, PageWidths, PageScrollHeights) /\ AuxIdle

NextPage ==
    \/ \E y \in PageOffsets : Scroll(y)
    \/ ScrollFrame
    \/ \E w \in PageWidths : Resize(w)
    \/ \E which \in {"resizeV2", "resizeV3"} : ThrottleTimeout(which)
    \/ PulseTimeout
    \/ MenuButtonClick

SpecPage == InitPage /\ [][NextPage]_vars

(* ---------------------------------------------------------------------- *)
(* Specification of resize bursts over a mobile menu that may be open      *)
(* ---------------------------------------------------------------------- *)

\* the widths the window passes through in a burst of resize events
BurstWidths == {500, 600, 1000}

\* a mobile-class window; the menu is closed, or it is open already (no
\* listener of app.js leaves it open, so an open menu is one the document
\* brings along)
InitResizeMenu ==
    /\ LoadedWith(PageInnerHeights, {w \in BurstWidths : isMobileV2(w)},
                  PageScrollHeights, TRUE, BOOLEAN)
    /\ AuxIdle

NextResizeMenu ==
    \/ \E w \in BurstWidths : Resize(w)
    \/ \E which \in {"resizeV2", "resizeV3"} : ThrottleTimeout(which)

SpecResizeMenu == InitResizeMenu /\ [][NextResizeMenu]_vars

(* ---------------------------------------------------------------------- *)
(* Specification of the reveal elements                                    *)
(* ---------------------------------------------------------------------- *)

NextReveal ==
    \/ \E y \in PageOffsets : Scroll(y)
    \/ ThrottleTimeout("scrollV2")
    \/ \E w \in PageWidths : Resize(w)
    \/ \E e \in RevealEls, isIntersecting \in BOOLEAN : RevealObserverEntry(e, isIntersecting)
    \/ MotionPreferenceFlip
    \/ MotionChangeHandler

SpecReveal == InitPage /\ [][NextReveal]_vars

(* ---------------------------------------------------------------------- *)
(* Specification of the reveal elements without IntersectionObserver       *)
(* ---------------------------------------------------------------------- *)

InitRevealFallback ==
    /\ LoadedIn(PageInnerHeights, PageWidths, PageScrollHeights, FALSE)
    /\ counter = counterIdle
    /\ boot = bootNoObserver(reducedMotion)
    /\ elems = elemsIdle
    /\ dropdown = dropdownsAfterInit(1)
    /\ wrapped = wrappedIdle

NextRevealFallback ==
    \/ \E y \in PageOffsets : Scroll(y)
    \/ ThrottleTimeout("scrollV2")
    \/ ScrollFrame
    \/ MotionPreferenceFlip
    \/ MotionChangeHandler

SpecRevealFallback == InitRevealFallback /\ [][NextRevealFallback]_vars

(* ---------------------------------------------------------------------- *)
(* Specification of the animated counter                                   *)
(* ---------------------------------------------------------------------- *)

\* the counter observer reports the element, intersecting (it entered the
\* viewport) or not (it left, or the first report after observe); an
\* observer reports only elements it observes
CounterObserverEntry(isIntersecting) ==
    /\ counter.observed
    /\ counter.starts < MaxStarts
    /\ counter' = counterObserverCallback(counter, isIntersecting)
    /\ last' = Event("counterentry", NotFound,
                     IF isIntersecting THEN "enter" ELSE "leave", NotFound)
    /\ UNCHANGED docVars
    /\ UNCHANGED <<boot, elems, dropdown, wrapped>>

\* the animation frame callback updateCount, at elapsed ticks after start
CounterFrame(elapsed) ==
    /\ counter.scheduled
    /\ elapsed >= counter.elapsed
    /\ counter.frames < MaxFrames
    /\ counter' = updateCount(counter, elapsed)
    /\ last' = Event("counterframe", NotFound, "", NotFound)
    /\ UNCHANGED docVars
    /\ UNCHANGED <<boot, elems, dropdown, wrapped>>

InitCounter ==
    /\ Loaded(InnerHeights, {1000}, {710})
    /\ counter \in {counterElement(target) : target \in CounterTargets}
    /\ boot = bootDone
    /\ elems = elemsIdle
    /\ dropdown = dropdownsAfterInit(1)
    /\ wrapped = wrappedIdle

NextCounter ==
    \/ \E isIntersecting \in BOOLEAN : CounterObserverEntry(isIntersecting)
    \/ \E elapsed \in 0 .. MaxElapsedTicks : CounterFrame(elapsed)

SpecCounter == InitCounter /\ [][NextCounter]_vars

(* ---------------------------------------------------------------------- *)
(* Specification of init() of 3.0.0                                        *)
(* ---------------------------------------------------------------------- *)

\* the next call in the try block of init: it returns, or it throws and the
\* catch block logs the error, which ends init
InitStep ==
    /\ ~boot.done
    /\ boot.pc <= Len(InitSteps)
    /\ LET step == InitSteps[boot.pc]
           result == observerStepOutcome(step, boot.env, reducedMotion)
           recorded == IF step \in ObserverSteps
                       THEN [boot.outcome EXCEPT ![step] = result]
                       ELSE boot.outcome
       IN  /\ IF result = "throws"
              THEN boot' = [boot EXCEPT !.threw = step, !.done = TRUE,
                                        !.outcome = recorded]
              ELSE boot' = [boot EXCEPT !.ran = @ \cup {step}, !.pc = @ + 1,
                                        !.done = (boot.pc = Len(InitSteps)),
                                        !.outcome = recorded]
           /\ last' = Event("initstep", boot.pc, step, NotFound)
    /\ UNCHANGED docVars
    /\ UNCHANGED <<counter, elems, dropdown, wrapped>>

InitBoot ==
    /\ Loaded(InnerHeights, {1000}, {710})
    /\ counter = counterIdle
    /\ elems = elemsIdle
    /\ dropdown = dropdownsAfterInit(1)
    /\ wrapped = wrappedIdle
    /\ boot \in {bootStart(env) : env \in Environments}

NextBoot == InitStep

SpecBoot == InitBoot /\ [][NextBoot]_vars

(* ---------------------------------------------------------------------- *)
(* Specification of the scripts on pages with elements missing             *)
(* ---------------------------------------------------------------------- *)

\* the scripts whose handler of ev throws
throwingScripts(ev) ==
    {script \in Scripts :
        \E fn \in calledFns(script, ev, elems.present,
                            IF script = "v1" THEN elems.menuActive ELSE menuOpen,
                            innerWidth) :
            fnThrows(script, fn, elems.present)}

\* init() of each script
ElementsInit ==
    /\ ~elems.inited
    /\ elems' = [elems EXCEPT !.inited = TRUE,
                              !.errors = @ \cup {<<script, "init">> :
                                                   script \in throwingScripts("init")}]
    /\ last' = Event("init", NotFound, "", NotFound)
    /\ UNCHANGED docVars
    /\ UNCHANGED <<counter, boot, dropdown, wrapped>>

\* event ev is dispatched to the listeners each script registered (the
\* click listener of the menu button only if the button exists)
ElementsEvent(ev) ==
    /\ elems.inited
    /\ ev = "menuclick" => "mobileMenuBtn" \in elems.present
    /\ elems' = [elems EXCEPT
                    !.menuActive = menuActiveV1(ev, elems.present, elems.menuActive,
                                                innerWidth),
                    !.errors = @ \cup {<<script, ev>> : script \in throwingScripts(ev)}]
    /\ last' = Event(ev, NotFound, "", NotFound)
    /\ UNCHANGED docVars
    /\ UNCHANGED <<counter, boot, dropdown, wrapped>>

InitElements ==
    /\ Loaded(InnerHeights, {1000}, {710})
    /\ counter = counterIdle
    /\ boot = bootDone
    /\ dropdown = dropdownsAfterInit(1)
    /\ wrapped = wrappedIdle
    /\ elems \in {elementsPage(present) : present \in SUBSET ElementNames}

NextElements ==
    \/ ElementsInit
    \/ \E ev \in ElementEvents : ElementsEvent(ev)

SpecElements == InitElements /\ [][NextElements]_vars

(* ---------------------------------------------------------------------- *)
(* Specification of the dropdown menus                                     *)
(* ---------------------------------------------------------------------- *)

\* a click on the trigger of dropdown d; ref follows one listener
DropdownTriggerClick(d) ==
    /\ dropdown' = [dropdown EXCEPT
                       !.open = IF dropdown.inits = 2
                                THEN triggerClickHandler(triggerClickHandler(@, d), d)
                                ELSE triggerClickHandler(@, d),
                       !.ref = triggerClickHandler(@, d)]
    /\ last' = Event("triggerclick", d, "", NotFound)
    /\ UNCHANGED docVars
    /\ UNCHANGED <<counter, boot, elems, wrapped>>

\* a keydown on the trigger of dropdown d
DropdownTriggerKeydown(d, key) ==
    /\ dropdown' = [dropdown EXCEPT
                       !.open = IF dropdown.inits = 2
                                THEN triggerKeydownHandler(
                                         triggerKeydownHandler(@, d, key), d, key)
                                ELSE triggerKeydownHandler(@, d, key),
                       !.ref = triggerKeydownHandler(@, d, key)]
    /\ last' = Event("triggerkeydown", d, key, NotFound)
    /\ UNCHANGED docVars
    /\ UNCHANGED <<counter, boot, elems, wrapped>>

\* a click outside every dropdown
DropdownOutsideClick ==
    /\ dropdown' = [dropdown EXCEPT
                       !.open = IF dropdown.inits = 2
                                THEN outsideClickHandler(outsideClickHandler(@))
                                ELSE outsideClickHandler(@),
                       !.ref = outsideClickHandler(@)]
    /\ last' = Event("outsideclick", NotFound, "", NotFound)
    /\ UNCHANGED docVars
    /\ UNCHANGED <<counter, boot, elems, wrapped>>

InitDropdowns ==
    /\ Loaded(InnerHeights, {1000}, {710})
    /\ counter = counterIdle
    /\ boot = bootDone
    /\ elems = elemsIdle
    /\ dropdown \in {dropdownsAfterInit(runs) : runs \in InitRuns}
    /\ wrapped = wrappedIdle

NextDropdowns ==
    \/ \E d \in Dropdowns : DropdownTriggerClick(d)
    \/ \E d \in Dropdowns, key \in DropdownKeys : DropdownTriggerKeydown(d, key)
    \/ DropdownOutsideClick

SpecDropdowns == InitDropdowns /\ [][NextDropdowns]_vars

(* ---------------------------------------------------------------------- *)
(* Specifications of throttle and of rafThrottle                           *)
(* ---------------------------------------------------------------------- *)

\* a call of the throttled function with argument arg
ThrottledCall(arg) ==
    /\ wrapped.th.calls < MaxCalls
    /\ wrapped' = [wrapped EXCEPT !.th = throttledCall(@, arg, wrapped.now)]
    /\ last' = Event("throttledcall", NotFound, arg, NotFound)
    /\ UNCHANGED docVars
    /\ UNCHANGED <<counter, boot, elems, dropdown>>

\* the timeout set by the last invocation fires, limit after it was set
WrapperTimeout ==
    /\ wrapped.th.inThrottle
    /\ wrapped.now >= wrapped.th.due
    /\ wrapped' = [wrapped EXCEPT !.th = throttleTimeout(@)]
    /\ last' = Event("wrappertimeout", NotFound, "", NotFound)
    /\ UNCHANGED docVars
    /\ UNCHANGED <<counter, boot, elems, dropdown>>

\* time passes, but not past a timeout that is due
WrapperTick ==
    /\ wrapped.now < MaxNow
    /\ ~(wrapped.th.inThrottle /\ wrapped.now >= wrapped.th.due)
    /\ wrapped' = [wrapped EXCEPT !.now = @ + 1]
    /\ last' = Event("wrappertick", NotFound, "", NotFound)
    /\ UNCHANGED docVars
    /\ UNCHANGED <<counter, boot, elems, dropdown>>

\* a call of the frame-aligned function with argument arg
RafThrottledCall(arg) ==
    /\ wrapped.raf.calls < MaxCallsPerFrame
    /\ wrapped' = [wrapped EXCEPT !.raf = rafThrottledCall(@, arg)]
    /\ last' = Event("rafcall", NotFound, arg, NotFound)
    /\ UNCHANGED docVars
    /\ UNCHANGED <<counter, boot, elems, dropdown>>

\* the browser renders a frame and runs the frame callbacks requested
RafThrottleFrame ==
    /\ wrapped' = [wrapped EXCEPT !.raf = rafThrottleFrame(@)]
    /\ last' = Event("rafframe", NotFound, "", NotFound)
    /\ UNCHANGED docVars
    /\ UNCHANGED <<counter, boot, elems, dropdown>>

InitWrappers ==
    /\ Loaded(InnerHeights, {1000}, {710})
    /\ AuxIdle

NextThrottle ==
    \/ \E arg \in WrapperArgs : ThrottledCall(arg)
    \/ WrapperTimeout
    \/ WrapperTick

SpecThrottle == InitWrappers /\ [][NextThrottle]_vars

NextRafThrottle ==
    \/ \E arg \in WrapperArgs : RafThrottledCall(arg)
    \/ RafThrottleFrame

SpecRafThrottle == InitWrappers /\ [][NextRafThrottle]_vars

(* ---------------------------------------------------------------------- *)
(* Properties                                                              *)
(* ---------------------------------------------------------------------- *)

ActiveTabs == {i \in Tabs : gallery.tabs[i].active}

ActiveIndex == getActiveScreenshotIndex(gallery)

DiffX == touch.touchStartX - touch.touchEndX

DiffY == touch.touchStartY - touch.touchEndY

\* C1: in every reachable state exactly one gallery tab is active and the
\* index getActiveScreenshotIndex reads lies in [0, N).
C1_ExactlyOneActive ==
    /\ Cardinality(ActiveTabs) = 1
    /\ ActiveIndex \in Tabs

\* an autoplay tick wrapped the selection from the last tab to the first
C1_Witness ==
    /\ last.kind = "tick"
    /\ last.before = NumTabs - 1
    /\ ActiveTabs = {0}

\* C2: after a click on tab i, which calls switchScreenshotTab(i), the
\* active index read by getActiveScreenshotIndex is i.
C2_SelectThenRead ==
    last.kind = "click" => ActiveIndex = last.idx

\* the last tab was clicked and is the active one
C2_Witness ==
    /\ last.kind = "click"
    /\ last.idx = NumTabs - 1
    /\ ActiveIndex = NumTabs - 1

\* C3: a key pressed on tab i selects N-1 on End, 0 on Home, (i+1) mod N on
\* ArrowRight/ArrowDown, (i-1+N) mod N on ArrowLeft/ArrowUp; any other key
\* leaves the active index as it was.
C3_KeyboardNavigation ==
    last.kind = "keydown" =>
        /\ last.key = "End" => ActiveIndex = NumTabs - 1
        /\ last.key = "Home" => ActiveIndex = 0
        /\ last.key \in {"ArrowRight", "ArrowDown"} =>
               ActiveIndex = (IF last.idx = NumTabs - 1 THEN 0 ELSE last.idx + 1)
        /\ last.key \in {"ArrowLeft", "ArrowUp"} =>
               ActiveIndex = (IF last.idx = 0 THEN NumTabs - 1 ELSE last.idx - 1)
        /\ last.key \notin NavKeys => ActiveIndex = last.before

\* ArrowRight on the last tab selected the first tab
C3_Witness ==
    /\ last.kind = "keydown"
    /\ last.key = "ArrowRight"
    /\ last.idx = NumTabs - 1
    /\ ActiveIndex = 0

\* C4 as stated: a touch pair changes the active index only if the
\* horizontal displacement exceeds 50px and exceeds the vertical one.
C4_SwipeOnlyIfExceeds ==
    (last.kind = "touchend" /\ ActiveIndex # last.before) =>
        (Abs(DiffX) > swipeThreshold /\ Abs(DiffX) > Abs(DiffY))

\* C4 amended: a touch pair changes the active index only if the horizontal
\* displacement is at least 50px and at least the vertical one in
\* magnitude; 60px horizontal with 10px vertical moves exactly one index,
\* 30px horizontal moves nothing.
C4_SwipeOnlyIfAtLeast ==
    last.kind = "touchend" =>
        /\ ~(Abs(DiffX) >= swipeThreshold /\ Abs(DiffX) >= Abs(DiffY)) =>
               ActiveIndex = last.before
        /\ (Abs(DiffX) = 60 /\ Abs(DiffY) = 10) =>
               ActiveIndex \in {(last.before + 1) % NumTabs,
                                (last.before + NumTabs - 1) % NumTabs}
        /\ Abs(DiffX) = 30 => ActiveIndex = last.before

\* a swipe of exactly 50px horizontal displacement moved the selection
C4_Witness ==
    /\ last.kind = "touchend"
    /\ Abs(DiffX) = swipeThreshold
    /\ ActiveIndex # last.before

C6_AtMostOneTimer ==
    /\ Cardinality(timers) <= 1
    /\ timers = (IF state.screenshotAutoplay = Null THEN {} ELSE {state.screenshotAutoplay})
    /\ (last.kind = "start" /\ last.before # Null) =>
           (state.screenshotAutoplay = last.before /\ timers = {last.before})
    /\ last.kind \in {"touchstart", "mouseenter", "focusin"} =>
           state.screenshotAutoplay = Null

\* start was called while a timer was running
C6_Witness ==
    /\ last.kind = "start"
    /\ last.before # Null
    /\ timers = {last.before}

\* C7: after the handler of a tab click, a navigation key on a tab, a
\* touchstart on the frame, or pointer/focus entering the gallery, no
\* autoplay timer is alive.
C7_InteractionCancelsAutoplay ==
    (\/ last.kind \in {"click", "touchstart", "mouseenter", "focusin"}
     \/ (last.kind = "keydown" /\ last.key \in NavKeys))
        => timers = {}

\* C8: when the document becomes hidden the autoplay timer is cancelled,
\* and while the document stays hidden (and startScreenshotAutoplay is not
\* called again) no timer is alive and no autoplay tick happens.
C8_HiddenCancelsAutoplay ==
    /\ []((last.kind = "visibilitychange" /\ hidden) =>
              (timers = {} /\ state.screenshotAutoplay = Null))
    /\ [][(hidden /\ hidden' /\ timers = {} /\ last'.kind # "start") =>
              (timers' = {} /\ last'.kind # "tick")]_vars

\* the document became hidden while a timer was running
C8_Witness ==
    /\ last.kind = "visibilitychange"
    /\ hidden
    /\ last.before # Null
    /\ timers = {}

\* C9: whenever the reduced-motion preference is on and its change handler
\* has run, no autoplay timer is alive.
C9_NoAutoplayUnderReducedMotion ==
    (reducedMotion /\ ~motionChangePending) =>
        (timers = {} /\ state.screenshotAutoplay = Null)

\* the preference was switched on while a timer was running
C9_Witness ==
    /\ last.kind = "motionchange"
    /\ reducedMotion
    /\ last.before # Null
    /\ timers = {}

\* C10: no scroll event handled while the reduced-motion preference is on
\* (the event arrived and its frame ran after the preference's change
\* handler) writes a translateY transform to the hero element.
C10_NoParallaxUnderReducedMotion ==
    (/\ last.kind = "parallaxframe"
     /\ reducedMotion
     /\ ~motionChangePending
     /\ parallax.schedReduced)
        => last.before = NotFound

\* C11: after a resize event, the device class each resize handler computed
\* is mobile if and only if the viewport width is below 900.
C11_DeviceClassByWidth ==
    last.kind = "resize" =>
        \A script \in {"v2", "v3"} :
            deviceSeen[script] \in
                {"none", IF innerWidth < 900 THEN "mobile" ELSE "desktop"}

\* C12: a reveal element that is marked visible is marked visible after
\* every step (scroll, resize, motion-preference change, observer report).
C12_RevealOneWay ==
    [][\A e \in RevealEls : reveal[e] => reveal'[e]]_vars

\* a revealed element lies outside the trigger margin after a handled scroll
\* back to the top, motion not reduced, and is still visible
C12_Witness ==
    /\ last.kind = "scroll"
    /\ ~reducedMotion
    /\ \E e \in RevealEls :
           /\ reveal[e]
           /\ ~(RevealTop(e) - scrollY < innerHeight - revealOffset)

RingFraction == backToTop.ring[1]

MaxScrollOffset == scrollHeight - innerHeight

\* C14 as stated: after a handled scroll the value written to the progress
\* ring is the full circumference at the maximum scroll offset and zero at
\* offset zero.
C14_RingFullAtMaxOffset ==
    last.kind = "scrollframe" =>
        /\ scrollY = MaxScrollOffset =>
               RingFraction.num = progressRingCircumference * RingFraction.den
        /\ scrollY = 0 => RingFraction.num = 0

\* C14 amended: after a handled scroll the stroke offset written to the ring
\* is circumference * (1 - f), f the scroll fraction clamped to [0,1]: zero
\* at or beyond the maximum scroll offset, the full circumference at zero.
C14_RingOffsetComplement ==
    last.kind = "scrollframe" =>
        /\ RingFraction.den = MaxScrollOffset
        /\ scrollY >= MaxScrollOffset => RingFraction.num = 0
        /\ scrollY <= 0 =>
               RingFraction.num = progressRingCircumference * MaxScrollOffset
        /\ (0 < scrollY /\ scrollY < MaxScrollOffset) =>
               RingFraction.num = progressRingCircumference * (MaxScrollOffset - scrollY)

\* a scroll frame handled the maximum offset and wrote offset zero
C14_Witness ==
    /\ last.kind = "scrollframe"
    /\ scrollY = MaxScrollOffset
    /\ RingFraction.num = 0

\* C19: on a desktop-class viewport above offset 100, a handled scroll whose
\* delta to the previously handled offset exceeds +5 hides a shown navbar,
\* and one whose delta is below -5 shows a hidden navbar.
C19_NavbarAutoHide ==
    (/\ last.kind = "scrollframe"
     /\ ~(innerWidth < 900)
     /\ scrollY > 100) =>
        /\ (scrollY - last.before > 5 /\ last.key = "shown") =>
               (state.isNavbarHidden /\ navbar.transform = "translateY(-100%)")
        /\ (scrollY - last.before < 0 - 5 /\ last.key = "hidden") =>
               (~state.isNavbarHidden /\ navbar.transform = "translateY(0)")

\* a hidden navbar was shown again by a handled upward scroll above offset 100
C19_Witness ==
    /\ last.kind = "scrollframe"
    /\ ~(innerWidth < 900)
    /\ scrollY > 100
    /\ scrollY - last.before < 0 - 5
    /\ last.key = "hidden"
    /\ ~state.isNavbarHidden

\* C20: with no scroll frame pending, the navbar is not hidden whenever the
\* viewport is mobile-class or the offset is at most the threshold.
C20_ShownOnMobileOrAtTop ==
    (/\ ~throttle.scrollTicking
     /\ (innerWidth < 900 \/ scrollY <= scrollThreshold)) =>
        (~state.isNavbarHidden /\ navbar.transform # "translateY(-100%)")

CounterShown == groupsValue(counter.text)

\* C13: the displayed value is floor(target * (1 - (1-t)^4)), t = elapsed /
\* 2000ms clamped to [0,1]; it never decreases from one frame to the next,
\* it is exactly the target once a frame ran at elapsed >= 2000ms, and then no
\* further frame is scheduled.
C13_CounterEasing ==
    /\ [](counter.frames > 0 =>
            LET t == IF counter.elapsed * 100 < 2000 THEN counter.elapsed ELSE 20
                eased == counter.target * (160000 - (20 - t) * (20 - t) * (20 - t) * (20 - t))
            IN  /\ CounterShown * 160000 <= eased
                /\ eased < (CounterShown + 1) * 160000
                /\ counter.elapsed * 100 >= 2000 =>
                       (CounterShown = counter.target /\ ~counter.scheduled))
    /\ [][counter.frames > 0 => groupsValue(counter'.text) >= CounterShown]_vars

\* the counter with target 1000 shows 1,000 after a frame at 2000ms that
\* followed an earlier frame, and requests no further frame
C13_Witness ==
    /\ counter.target = 1000
    /\ counter.frames > 1
    /\ counter.elapsed = 20
    /\ counter.text = <<1, 0>>
    /\ ~counter.scheduled

\* C15: when init has ended and one step threw, every other step of init
\* ran.
C15_FailureIsolated ==
    (boot.done /\ boot.threw # "") =>
        \A step \in StepNames \ {boot.threw} : step \in boot.ran

\* C17: without IntersectionObserver every step that depends on it fell back
\* or disabled itself, none threw, and init ran all its steps.
C17_ObserverUnavailableRecovered ==
    (~boot.env.hasIO /\ boot.done) =>
        /\ \A step \in ObserverSteps : boot.outcome[step] \in {"fallback", "disabled"}
        /\ boot.ran = StepNames

\* C16: whatever subset of the elements is missing, no init and no handler
\* of a scroll, resize, click or Escape keydown event throws.
C16_MissingElementsSilent ==
    elems.errors = {}

\* C18: with init run twice, every event leaves the dropdowns in the state
\* it leaves them in with init run once.
C18_InitIdempotent ==
    dropdown.open = dropdown.ref


\* a scroll frame runs in this step
ScrollFrameStep == throttle.scrollTicking /\ ~throttle'.scrollTicking

\* C21: on desktop above offset 100, a handled scroll whose delta to the
\* previously handled offset is at most 5 in magnitude leaves the navbar's
\* hidden state and its transform as they were.
C21_NoThrash ==
    [][(/\ ScrollFrameStep
        /\ ~(innerWidth < 900)
        /\ scrollY > 100
        /\ scrollY - handledY <= 5
        /\ handledY - scrollY <= 5) =>
           (/\ state'.isNavbarHidden = state.isNavbarHidden
            /\ navbar'.transform = navbar.transform)]_vars

\* a hidden navbar stayed hidden through a handled upward scroll of at most 5
C21_Witness ==
    /\ last.kind = "scrollframe"
    /\ last.key = "hidden"
    /\ ~(innerWidth < 900)
    /\ scrollY > 100
    /\ scrollY < last.before
    /\ last.before - scrollY <= 5
    /\ state.isNavbarHidden
    /\ navbar.transform = "translateY(-100%)"

\* C22: after a handled scroll with a positive delta to the previously
\* handled offset the tracked direction is "down", after a negative delta it
\* is "up".
C22_DirectionFollowsDelta ==
    last.kind = "scrollframe" =>
        /\ scrollY > last.before => state.scrollDirection = "down"
        /\ scrollY < last.before => state.scrollDirection = "up"

\* C30: class pulse is added only in the step in which the button becomes
\* visible for the first time; once the button has been shown that is
\* remembered, so no later hide/show cycle adds the class again.
C30_PulseOnce ==
    /\ [][(~backToTop.pulse /\ backToTop'.pulse) =>
             (/\ ~state.hasShownBackToTop
              /\ ~backToTop.visible
              /\ backToTop'.visible
              /\ scrollY > 300)]_vars
    /\ [][(~backToTop.visible /\ backToTop'.visible) =>
             (state'.hasShownBackToTop
              /\ (~state.hasShownBackToTop => backToTop'.pulse))]_vars
    /\ [][state.hasShownBackToTop =>
             (state'.hasShownBackToTop /\ backToTop'.pulseTimers <= backToTop.pulseTimers)]_vars

\* the button became visible again in a later show, after the pulse had
\* ended, without class pulse
C30_Witness ==
    /\ last.kind = "scrollframe"
    /\ last.before <= 300
    /\ scrollY > 300
    /\ backToTop.visible
    /\ state.hasShownBackToTop
    /\ ~backToTop.pulse
    /\ backToTop.pulseTimers = 0


\* C26: if index i is active when an autoplay tick fires, index (i+1) mod N
\* is active afterwards.
C26_TickAdvancesByOne ==
    last.kind = "tick" =>
        ActiveIndex = (IF last.before = NumTabs - 1 THEN 0 ELSE last.before + 1)

\* a tick advanced the gallery from the first tab to the second
C26_Witness ==
    /\ last.kind = "tick"
    /\ last.before = 0
    /\ ActiveIndex = 1

\* C27: switchScreenshotTab(i) applied twice equals applying it once; after
\* a selection of i, selecting i again changes nothing in the gallery (tab
\* classes, aria-selected, tabindex, active image, caption).
C27_ReselectIsNoOp ==
    /\ [](\A i \in Tabs :
             switchScreenshotTab(switchScreenshotTab(gallery, i), i)
                 = switchScreenshotTab(gallery, i))
    /\ [](last.kind = "click" => switchScreenshotTab(gallery, last.idx) = gallery)
    /\ [][(last'.kind = "click" /\ last'.idx = ActiveIndex) => gallery' = gallery]_vars

\* the active middle tab was clicked again
C27_Witness ==
    /\ last.kind = "click"
    /\ last.idx = 1
    /\ last.before = 1
    /\ ActiveIndex = 1


AllRevealed == \A e \in RevealEls : reveal[e]

InTriggerMargin(e) == RevealTop(e) - scrollY < innerHeight - 100

\* C28: whenever the reduced-motion preference is on and its change handler
\* has run (or it was on at initialization), every reveal element is marked
\* visible, whatever its position.
C28_ReducedMotionRevealsAll ==
    (reducedMotion /\ ~motionChangePending) => AllRevealed

\* the preference was switched on mid-session, its handler ran, and an
\* element outside the trigger margin is visible
C28_Witness ==
    /\ last.kind = "motionchange"
    /\ reducedMotion
    /\ AllRevealed
    /\ \E e \in RevealEls : ~InTriggerMargin(e)

ThrottledCallStep == wrapped'.th.calls = wrapped.th.calls + 1

\* the call of that step invoked func, synchronously, with its own argument
ThrottledCallInvokes ==
    /\ wrapped'.th.invoked = wrapped.th.invoked + 1
    /\ wrapped'.th.lastAt = wrapped.now
    /\ wrapped'.th.lastArg = last'.key

\* C23: throttle is a leading-edge throttle: the first call invokes func
\* synchronously, a call less than limit after the last invocation invokes
\* nothing, a call more than limit after it invokes func synchronously, and
\* two invocations are never closer than limit.
C23_LeadingEdgeThrottle ==
    /\ [][ThrottledCallStep =>
            /\ (wrapped.th.lastAt = NotFound => ThrottledCallInvokes)
            /\ (wrapped.th.lastAt # NotFound
                    /\ wrapped.now - wrapped.th.lastAt < wrapped.th.limit
                  => wrapped'.th.invoked = wrapped.th.invoked)
            /\ (wrapped.th.lastAt # NotFound
                    /\ wrapped.now - wrapped.th.lastAt > wrapped.th.limit
                  => ThrottledCallInvokes)]_vars
    /\ [](wrapped.th.prevAt # NotFound
            => wrapped.th.lastAt - wrapped.th.prevAt >= wrapped.th.limit)

\* func was invoked, calls in the window were dropped, and a call after the
\* window invoked it again
C23_Witness ==
    /\ wrapped.th.invoked = 2
    /\ wrapped.th.calls > 2
    /\ wrapped.th.prevAt # NotFound
    /\ wrapped.th.lastAt = wrapped.now

\* C24: a deferred invocation passes the arguments of the latest call made
\* to the wrapper before it.
C24_DeferredUsesLatestArgs ==
    wrapped.raf.ran > 0 => wrapped.raf.ranArg = wrapped.raf.ranLatest

\* C25: rafThrottle has at most one frame callback pending, one is pending
\* exactly when a call arrived since the last frame, and a frame runs the
\* handler once if at least one call arrived since the frame before and not
\* at all otherwise.
C25_OneRunPerFrame ==
    /\ Len(wrapped.raf.frames) <= 1
    /\ (wrapped.raf.calls >= 1 <=> Len(wrapped.raf.frames) = 1)
    /\ wrapped.raf.ran = (IF wrapped.raf.ranCalls >= 1 THEN 1 ELSE 0)

\* several calls arrived before a frame that ran the handler once, and a
\* call after that frame has requested a new one
C25_Witness ==
    /\ wrapped.raf.ranCalls > 1
    /\ wrapped.raf.ran = 1
    /\ wrapped.raf.calls = 1
    /\ Len(wrapped.raf.frames) = 1


\* a step in which the counter observer reported the element intersecting
CounterEnterStep == last'.kind = "counterentry" /\ last'.key = "enter"

\* C31: the counter animation of an element is started by the first report
\* of the element as intersecting and by no other step, so it is started at
\* most once, whatever reports and frames follow.
C31_CounterStartsOnce ==
    /\ [](counter.starts <= 1)
    /\ [][CounterEnterStep => counter.starts = 0 /\ counter'.starts = 1]_vars
    /\ [][counter'.starts # counter.starts => CounterEnterStep]_vars

\* the element was reported as not intersecting, then as intersecting; the
\* animation was started once and ran to its end
C31_Witness ==
    /\ counter.starts = 1
    /\ ~counter.observed
    /\ counter.frames > 0
    /\ ~counter.scheduled
    /\ counter.target > 0


\* C32: one click on the mobile menu button toggles the menu.
C32_ClickTogglesMenu ==
    [][last'.kind = "menuclick" => menuOpen' = ~menuOpen]_vars

\* no resize throttle window is open: nothing more happens without an event
ResizeQuiet == ~throttle.resizeV2 /\ ~throttle.resizeV3

ParticlesGeneratedStep ==
    \/ /\ last'.kind = "resize"
       /\ ~reducedMotion
       /\ (deviceSeen'.v2 # "none" \/ deviceSeen'.v3 # "none")
    \/ /\ last'.kind = "motionchange"
       /\ ~reducedMotion

\* the device class the last generateParticles call of that step computed
LastCallSawMobile ==
    IF last'.kind = "resize"
    THEN IF deviceSeen'.v3 # "none"
         THEN deviceSeen'.v3 = "mobile"
         ELSE deviceSeen'.v2 = "mobile"
    ELSE isMobile(innerWidth)

C35_PresentationConsistent ==
    /\ \A i \in Tabs :
          /\ gallery.tabs[i].active <=> gallery.tabs[i].ariaSelected
          /\ gallery.tabs[i].ariaSelected <=> (gallery.tabs[i].tabindex = 0)
    /\ \A j \in Tabs : gallery.screenshots[j] <=> (j = ActiveIndex)

\* a key moved the selection off the first tab: the new tab carries all
\* three marks and its image, the first tab none
C35_Witness ==
    /\ last.kind = "keydown"
    /\ ActiveIndex # 0
    /\ gallery.tabs[ActiveIndex].ariaSelected
    /\ gallery.tabs[ActiveIndex].tabindex = 0
    /\ gallery.screenshots[ActiveIndex]
    /\ ~gallery.tabs[0].ariaSelected
    /\ gallery.tabs[0].tabindex = 0 - 1
    /\ ~gallery.screenshots[0]


\* C36: at most one navigation dropdown carries class open.
C36_AtMostOneOpen == Cardinality(dropdown.open) <= 1


\* C37: under the events the script listens to, the autoplay handle is null
\* and no interval timer is alive in every reachable state, and the active
\* gallery index changes only in a click, keydown or touchend step.
C37_AutoplayNeverStarts ==
    /\ [](state.screenshotAutoplay = Null /\ timers = {})
    /\ [][ActiveIndex' # ActiveIndex =>
            last'.kind \in {"click", "keydown", "touchend"}]_vars

\* the document was hidden and is visible again, motion is not reduced, a
\* tab other than the first is active: still no autoplay
C37_Witness ==
    /\ last.kind = "visibilitychange"
    /\ ~hidden
    /\ ~reducedMotion
    /\ ActiveIndex # 0
    /\ state.screenshotAutoplay = Null

====
